---- MODULE Spec2Model ----
(***************************************************************************)
(* Website Traffic Anomaly Detection (app.py).                             *)
(*                                                                         *)
(* Part 1 models the upload handler of src/app.py, lines 36-162: one       *)
(* script run per session, the sessions sharing the working directory      *)
(* (temp_upload.csv, output/plots, output/reports).  Every statement that  *)
(* touches the shared file system is one step, so that two sessions        *)
(* interleave the way two Streamlit script threads do.                     *)
(*                                                                         *)
(* Part 2 models the analysis functions the handler loads from             *)
(* anamoly_backend.ipynb (line 46).  The notebook is not part of the       *)
(* sources, so these operators follow sections 4.2-4.6 of the design       *)
(* document.                                                               *)
(***************************************************************************)
EXTENDS Integers, Sequences, FiniteSets, TLC

\* ------------------------------------------------------------------ bounds

\* Total number of uploads (runs) over all sessions.
MaxRuns == 2

\* The browser sessions that may run the script at the same time.
Sessions == {"a", "b"}

\* ------------------------------------------------------------- the handler

VARIABLES
    pc,          \* per session: the statement the script run is at
    upload,      \* per session: uploaded_file: the run's id and the columns of its CSV
    nextRun,     \* the id the next upload gets
    tempFile,    \* the path temp_upload.csv: exists, inode, the bytes it holds
    fd,          \* per session: inode the handle f of line 42 is open on (0: none)
    df,          \* per session: the local df (0: unbound, else the run whose bytes it holds)
    dfStage,     \* per session: "raw", "flagged" or "categorized"
    series,      \* per session: traffic_per_minute/hour/day: "unset", "counts", "flagged"
    dirs,        \* the directories that exist under the working directory
    artifacts,   \* the files under output/: who wrote them and from what
    dirReused,   \* history: some run wrote into a directory holding another run's files
    overwritten, \* history: some artifact file was written over an existing one
    shown,       \* per session: the elements the page shows
    shownPlots,  \* per session: the run whose data the displayed charts were drawn from
    trace,       \* history, per session: the processing stages that returned, in order
    failedAt     \* history, per session: the statement of the try block that raised

\* the bucket series and record table of part 2
VARIABLES
    records,     \* the parsed table: a sequence of TrafficRecord
    k,           \* the series detector's multiplier
    stage,       \* how far the pipeline of part 2 has come
    buckets,     \* per granularity: window -> count
    seriesFlags, \* per granularity: the set of windows flagged
    table,       \* the annotated table: records plus features, flag and category
    detected,    \* history: the rows the packet detector flagged
    report       \* the report: the summary and the outliers table

handlerVars == <<pc, upload, nextRun, tempFile, fd, df, dfStage, series,
                 dirs, artifacts, dirReused, overwritten, shown, shownPlots,
                 trace, failedAt>>
dataVars == <<records, k, stage, buckets, seriesFlags, table, detected, report>>
vars == <<handlerVars, dataVars>>

\* app.py:41, 147-148: the one path every run uses
temp_file_path == "temp_upload.csv"
\* app.py:58
output_dir == "output"
\* app.py:59: os.path.join(output_dir, "plots"); the same for every run
plots_dir == "output/plots"
\* app.py:60
reports_dir == "output/reports"

\* uploaded_file is None (app.py:38, 150); also the bytes of an empty file
NoUpload == [id |-> 0, cols |-> "none"]

NoTempFile == [exists |-> FALSE, ino |-> 0, data |-> NoUpload]

NoArtifact == [by |-> 0, src |-> 0, complete |-> FALSE]
\* the groups of files the handler reads back or offers: lines 89-95, 118-121, 69
ArtifactNames == {"traffic_plots", "anomaly_plots", "reports"}

Granularities == {"minute", "hour", "day"}
UnsetSeries == [g \in Granularities |-> "unset"]

\* The processing block, app.py:50-69, in statement order.
ProcessingOrderPlotsFirst ==
    << "process", "aggregate", "makedirs", "traffic_plots", "anomaly_plots",
       "detect_minute", "detect_hour", "detect_day",
       "detect_packets", "categorize", "report" >>
ProcessingOrder ==
    << "process", "aggregate", "detect_minute", "detect_hour", "detect_day",
       "makedirs", "traffic_plots", "anomaly_plots",
       "detect_packets", "categorize", "report" >>

IndexOf(seq, x) == CHOOSE i \in 1..Len(seq) : seq[i] = x

\* the statement control reaches when `st` returns normally
After(st) ==
    LET i == IndexOf(ProcessingOrder, st)
    IN IF i < Len(ProcessingOrder) THEN ProcessingOrder[i + 1] ELSE "success"

\* what a raising statement does: control goes to the except clause (line 141)
Raise(s, st) ==
    /\ pc' = [pc EXCEPT ![s] = "except"]
    /\ failedAt' = [failedAt EXCEPT ![s] = st]

\* what a returning processing stage does
Return(s, st) ==
    /\ pc' = [pc EXCEPT ![s] = After(st)]
    /\ trace' = [trace EXCEPT ![s] = Append(@, st)]
    /\ UNCHANGED failedAt

HandlerInit ==
    /\ pc = [s \in Sessions |-> "idle"]
    /\ upload = [s \in Sessions |-> NoUpload]
    /\ nextRun = 1
    /\ tempFile = NoTempFile
    /\ fd = [s \in Sessions |-> 0]
    /\ df = [s \in Sessions |-> 0]
    /\ dfStage = [s \in Sessions |-> "raw"]
    /\ series = [s \in Sessions |-> UnsetSeries]
    /\ dirs = {}
    /\ artifacts = [a \in ArtifactNames |-> NoArtifact]
    /\ dirReused = FALSE
    /\ overwritten = FALSE
    /\ shown = [s \in Sessions |-> {"info", "sample"}]
    /\ shownPlots = [s \in Sessions |-> 0]
    /\ trace = [s \in Sessions |-> << >>]
    /\ failedAt = [s \in Sessions |-> "none"]

\* app.py:36-38: the user uploads a CSV; the script reruns with uploaded_file set
Upload(s) ==
    /\ pc[s] \in {"idle", "done"}
    /\ nextRun <= MaxRuns
    /\ \E c \in {"all", "noProtocol"} :
          upload' = [upload EXCEPT ![s] = [id |-> nextRun, cols |-> c]]
    /\ nextRun' = nextRun + 1
    /\ pc' = [pc EXCEPT ![s] = "open_temp"]
    /\ fd' = [fd EXCEPT ![s] = 0]
    /\ df' = [df EXCEPT ![s] = 0]
    /\ dfStage' = [dfStage EXCEPT ![s] = "raw"]
    /\ series' = [series EXCEPT ![s] = UnsetSeries]
    /\ shown' = [shown EXCEPT ![s] = {}]
    /\ shownPlots' = [shownPlots EXCEPT ![s] = 0]
    /\ trace' = [trace EXCEPT ![s] = << >>]
    /\ failedAt' = [failedAt EXCEPT ![s] = "none"]
    /\ UNCHANGED <<tempFile, dirs, artifacts, dirReused, overwritten>>

\* app.py:150-162: the script reruns with no file (the user removed it)
ShowSample(s) ==
    /\ pc[s] = "done"
    /\ pc' = [pc EXCEPT ![s] = "idle"]
    /\ upload' = [upload EXCEPT ![s] = NoUpload]
    /\ shown' = [shown EXCEPT ![s] = {"info", "sample"}]
    /\ shownPlots' = [shownPlots EXCEPT ![s] = 0]
    /\ trace' = [trace EXCEPT ![s] = << >>]
    /\ failedAt' = [failedAt EXCEPT ![s] = "none"]
    /\ UNCHANGED <<nextRun, tempFile, fd, df, dfStage, series, dirs,
                   artifacts, dirReused, overwritten>>

\* app.py:42: open(temp_file_path, "wb") creates the file or truncates it
OpenTemp(s) ==
    /\ pc[s] = "open_temp"
    /\ \/ /\ tempFile' = [exists |-> TRUE,
                          ino |-> IF tempFile.exists THEN tempFile.ino ELSE upload[s].id,
                          data |-> NoUpload]
          /\ fd' = [fd EXCEPT ![s] = tempFile'.ino]
          /\ pc' = [pc EXCEPT ![s] = "write_temp"]
          /\ UNCHANGED failedAt
       \/ /\ Raise(s, "open_temp")
          /\ UNCHANGED <<tempFile, fd>>
    /\ UNCHANGED <<upload, nextRun, df, dfStage, series, dirs, artifacts,
                   dirReused, overwritten, shown, shownPlots, trace>>

\* app.py:43: f.write(uploaded_file.getbuffer()), then the with block closes f.
\* The bytes go to the inode f is open on, which is the file at the path only
\* while nobody has removed the path since.  When two runs hold the same inode
\* open, the file ends up with the bytes of the run that wrote last.
WriteTemp(s) ==
    /\ pc[s] = "write_temp"
    /\ fd' = [fd EXCEPT ![s] = 0]
    /\ \/ /\ tempFile' = IF tempFile.exists /\ tempFile.ino = fd[s]
                         THEN [tempFile EXCEPT !.data = upload[s]]
                         ELSE tempFile
          /\ pc' = [pc EXCEPT ![s] = "load_notebook"]
          /\ UNCHANGED failedAt
       \/ /\ Raise(s, "write_temp")
          /\ UNCHANGED tempFile
    /\ UNCHANGED <<upload, nextRun, df, dfStage, series, dirs, artifacts,
                   dirReused, overwritten, shown, shownPlots, trace>>

\* app.py:46: load_ipynb_module('anamoly_backend.ipynb')
LoadNotebook(s) ==
    /\ pc[s] = "load_notebook"
    /\ \/ /\ pc' = [pc EXCEPT ![s] = ProcessingOrder[1]]
          /\ UNCHANGED failedAt
       \/ Raise(s, "load_notebook")
    /\ UNCHANGED <<upload, nextRun, tempFile, fd, df, dfStage, series, dirs,
                   artifacts, dirReused, overwritten, shown, shownPlots, trace>>

\* app.py:50: df = process_traffic_data(temp_file_path).  It reads whatever the
\* path holds now; a missing file, an empty file or a file without a required
\* column makes it raise.
HasRequiredColumns(bytes) == bytes.id # 0 /\ bytes.cols = "all"

Process(s) ==
    /\ pc[s] = "process"
    /\ \/ /\ tempFile.exists
          /\ HasRequiredColumns(tempFile.data)
          /\ df' = [df EXCEPT ![s] = tempFile.data.id]
          /\ Return(s, "process")
       \/ /\ ~(tempFile.exists /\ HasRequiredColumns(tempFile.data))
          /\ Raise(s, "process")
          /\ UNCHANGED <<df, trace>>
    /\ UNCHANGED <<upload, nextRun, tempFile, fd, dfStage, series, dirs,
                   artifacts, dirReused, overwritten, shown, shownPlots>>

\* app.py:51: the three series are bound at once
Aggregate(s) ==
    /\ pc[s] = "aggregate"
    /\ \/ /\ series' = [series EXCEPT ![s] = [g \in Granularities |-> "counts"]]
          /\ Return(s, "aggregate")
       \/ /\ Raise(s, "aggregate")
          /\ UNCHANGED <<series, trace>>
    /\ UNCHANGED <<upload, nextRun, tempFile, fd, df, dfStage, dirs,
                   artifacts, dirReused, overwritten, shown, shownPlots>>

\* app.py:53-55: each call rebinds one series to its flagged version
Detect(s, st, g) ==
    /\ pc[s] = st
    /\ \/ /\ series' = [series EXCEPT ![s][g] = "flagged"]
          /\ Return(s, st)
       \/ /\ Raise(s, st)
          /\ UNCHANGED <<series, trace>>
    /\ UNCHANGED <<upload, nextRun, tempFile, fd, df, dfStage, dirs,
                   artifacts, dirReused, overwritten, shown, shownPlots>>

DetectMinute(s) == Detect(s, "detect_minute", "minute")
DetectHour(s) == Detect(s, "detect_hour", "hour")
DetectDay(s) == Detect(s, "detect_day", "day")

\* app.py:61-62: os.makedirs(..., exist_ok=True): an existing directory is reused
MakeDirs(s) ==
    /\ pc[s] = "makedirs"
    /\ \/ /\ dirs' = dirs \cup {output_dir, plots_dir, reports_dir}
          /\ Return(s, "makedirs")
       \/ /\ Raise(s, "makedirs")
          /\ UNCHANGED <<dirs, trace>>
    /\ UNCHANGED <<upload, nextRun, tempFile, fd, df, dfStage, series,
                   artifacts, dirReused, overwritten, shown, shownPlots>>

AllFlagged(s) == \A g \in Granularities : series[s][g] = "flagged"

ArtifactsIn(dir) ==
    IF dir = plots_dir THEN {"traffic_plots", "anomaly_plots"} ELSE {"reports"}

\* a stage writes the files of group `a` into directory `dir`
WriteArtifact(s, a, dir, complete) ==
    /\ artifacts' = [artifacts EXCEPT ![a] =
                        [by |-> upload[s].id, src |-> df[s], complete |-> complete]]
    /\ dirReused' = (dirReused \/ \E b \in ArtifactsIn(dir) :
                                     artifacts[b].by \notin {0, upload[s].id})
    /\ overwritten' = (overwritten \/ artifacts[a].by # 0)

\* app.py:64: generate_traffic_plots(..., plots_dir) writes minute_traffic.png,
\* hour_traffic.png and day_traffic.png (the names lines 89-95 read back)
TrafficPlots(s) ==
    /\ pc[s] = "traffic_plots"
    /\ \/ /\ plots_dir \in dirs
          /\ WriteArtifact(s, "traffic_plots", plots_dir, AllFlagged(s))
          /\ Return(s, "traffic_plots")
       \/ /\ Raise(s, "traffic_plots")
          /\ UNCHANGED <<artifacts, dirReused, overwritten, trace>>
    /\ UNCHANGED <<upload, nextRun, tempFile, fd, df, dfStage, series,
                   dirs, shown, shownPlots>>

\* app.py:65: generate_anomaly_plots(..., plots_dir) writes minute_anomalies.png
\* and hour_anomalies.png (the names lines 118-121 read back)
AnomalyPlots(s) ==
    /\ pc[s] = "anomaly_plots"
    /\ \/ /\ plots_dir \in dirs
          /\ WriteArtifact(s, "anomaly_plots", plots_dir, AllFlagged(s))
          /\ Return(s, "anomaly_plots")
       \/ /\ Raise(s, "anomaly_plots")
          /\ UNCHANGED <<artifacts, dirReused, overwritten, trace>>
    /\ UNCHANGED <<upload, nextRun, tempFile, fd, df, dfStage, series,
                   dirs, shown, shownPlots>>

\* app.py:67: df, features_used = detect_packet_anomalies(df)
DetectPackets(s) ==
    /\ pc[s] = "detect_packets"
    /\ \/ /\ dfStage' = [dfStage EXCEPT ![s] = "flagged"]
          /\ Return(s, "detect_packets")
       \/ /\ Raise(s, "detect_packets")
          /\ UNCHANGED <<dfStage, trace>>
    /\ UNCHANGED <<upload, nextRun, tempFile, fd, df, series, dirs,
                   artifacts, dirReused, overwritten, shown, shownPlots>>

\* app.py:68: df = categorize_anomalies(df)
Categorize(s) ==
    /\ pc[s] = "categorize"
    /\ \/ /\ dfStage' = [dfStage EXCEPT ![s] =
                          IF @ = "flagged" THEN "categorized" ELSE @]
          /\ Return(s, "categorize")
       \/ /\ Raise(s, "categorize")
          /\ UNCHANGED <<dfStage, trace>>
    /\ UNCHANGED <<upload, nextRun, tempFile, fd, df, series, dirs,
                   artifacts, dirReused, overwritten, shown, shownPlots>>

\* app.py:69: anomaly_summary, outliers = generate_anomaly_report(df, reports_dir)
AnomalyReport(s) ==
    /\ pc[s] = "report"
    /\ \/ /\ reports_dir \in dirs
          /\ WriteArtifact(s, "reports", reports_dir, dfStage[s] = "categorized")
          /\ Return(s, "report")
       \/ /\ Raise(s, "report")
          /\ UNCHANGED <<artifacts, dirReused, overwritten, trace>>
    /\ UNCHANGED <<upload, nextRun, tempFile, fd, df, dfStage, series,
                   dirs, shown, shownPlots>>

\* app.py:71: st.success("Analysis complete!"), reached when the with block of
\* line 49 has ended
Success(s) ==
    /\ pc[s] = "success"
    /\ shown' = [shown EXCEPT ![s] = @ \cup {"complete"}]
    /\ pc' = [pc EXCEPT ![s] = "tab1"]
    /\ UNCHANGED <<upload, nextRun, tempFile, fd, df, dfStage, series, dirs,
                   artifacts, dirReused, overwritten, shownPlots, trace, failedAt>>

\* one `with tabN:` block of app.py:76-139: it renders, or one of its calls raises
RenderTab(s, tab, next) ==
    /\ pc[s] = tab
    /\ \/ /\ shown' = [shown EXCEPT ![s] = @ \cup {tab}]
          /\ pc' = [pc EXCEPT ![s] = next]
          /\ UNCHANGED failedAt
       \/ /\ Raise(s, tab)
          /\ UNCHANGED shown
    /\ UNCHANGED <<upload, nextRun, tempFile, fd, df, dfStage, series, dirs,
                   artifacts, dirReused, overwritten, trace>>

\* app.py:74-83: the tabs are created and the table of this run is shown
Tab1(s) == RenderTab(s, "tab1", "tab2") /\ UNCHANGED shownPlots

\* app.py:85-95: st.image reads the three traffic charts back from plots_dir
Tab2(s) ==
    /\ RenderTab(s, "tab2", "tab3")
    /\ shownPlots' = [shownPlots EXCEPT ![s] =
                         IF pc'[s] = "tab3" THEN artifacts["traffic_plots"].src ELSE @]

\* app.py:97-124: the summary of this run and the anomaly charts of plots_dir
Tab3(s) == RenderTab(s, "tab3", "tab4") /\ UNCHANGED shownPlots

\* app.py:126-139: the two download buttons
Tab4(s) == RenderTab(s, "tab4", "finally_check") /\ UNCHANGED shownPlots

\* the script run ends: its names df, traffic_per_* are bound to nothing the
\* next run reads (lines 50-51 rebind them before any use)
EndOfRun(s) ==
    /\ df' = [df EXCEPT ![s] = 0]
    /\ dfStage' = [dfStage EXCEPT ![s] = "raw"]
    /\ series' = [series EXCEPT ![s] = UnsetSeries]

\* a bug the handler could have: the cleanup at the end of the try block
\* instead of in a finally clause, so that a failed run skips it
ExceptWithoutCleanup(s) ==
    /\ pc[s] = "except"
    /\ shown' = [shown EXCEPT ![s] = @ \cup {"error", "guidance"}]
    /\ pc' = [pc EXCEPT ![s] = "done"]
    /\ EndOfRun(s)
    /\ UNCHANGED <<upload, nextRun, tempFile, fd, dirs, artifacts, dirReused,
                   overwritten, shownPlots, trace, failedAt>>

\* a bug the handler could have: `except Exception: pass`
ExceptSilent(s) ==
    /\ pc[s] = "except"
    /\ pc' = [pc EXCEPT ![s] = "finally_check"]
    /\ UNCHANGED <<upload, nextRun, tempFile, fd, df, dfStage, series, dirs,
                   artifacts, dirReused, overwritten, shown, shownPlots, trace,
                   failedAt>>

\* app.py:141-143: except Exception: st.error(...), st.write(...)
Except(s) ==
    /\ pc[s] = "except"
    /\ shown' = [shown EXCEPT ![s] = @ \cup {"error", "guidance"}]
    /\ pc' = [pc EXCEPT ![s] = "finally_check"]
    /\ UNCHANGED <<upload, nextRun, tempFile, fd, df, dfStage, series, dirs,
                   artifacts, dirReused, overwritten, shownPlots, trace, failedAt>>

\* app.py:147: if os.path.exists("temp_upload.csv")
FinallyCheck(s) ==
    /\ pc[s] = "finally_check"
    /\ \/ /\ tempFile.exists
          /\ pc' = [pc EXCEPT ![s] = "finally_remove"]
          /\ UNCHANGED <<df, dfStage, series>>
       \/ /\ ~tempFile.exists
          /\ pc' = [pc EXCEPT ![s] = "done"]
          /\ EndOfRun(s)
    /\ UNCHANGED <<upload, nextRun, tempFile, fd, dirs, artifacts, dirReused,
                   overwritten, shown, shownPlots, trace, failedAt>>

\* app.py:148: os.remove("temp_upload.csv"); when the path is gone by now it
\* raises FileNotFoundError out of the finally clause, which nothing catches
FinallyRemove(s) ==
    /\ pc[s] = "finally_remove"
    /\ \/ /\ tempFile.exists
          /\ tempFile' = NoTempFile
          /\ UNCHANGED <<shown, failedAt>>
       \/ /\ ~tempFile.exists
          /\ shown' = [shown EXCEPT ![s] = @ \cup {"exception"}]
          /\ UNCHANGED <<tempFile, failedAt>>
    /\ pc' = [pc EXCEPT ![s] = "done"]
    /\ EndOfRun(s)
    /\ UNCHANGED <<upload, nextRun, fd, dirs, artifacts, dirReused, overwritten,
                   shownPlots, trace>>

\* ------------------------------------------------ the analysis functions
\* The functions line 46 loads from anamoly_backend.ipynb, after sections
\* 4.2-4.6 of the design document.

\* Largest number of records in an uploaded table.
MaxRecords == 4
\* Largest multiplier k the series detector is tried with (0..MaxK).
MaxK == 2

\* TrafficRecord (section 3): Time in seconds, Length in bytes, Source, Protocol.
\* A pool of records that fall into different minutes, hours and days and hit
\* each rule of the categorizer.
RecordPool ==
    { [time |-> 0,     length |-> 100,   source |-> "192.168.1.1", protocol |-> 6],
      [time |-> 30,    length |-> 50000, source |-> "192.168.1.1", protocol |-> 6],
      [time |-> 60,    length |-> 100,   source |-> "192.168.1.2", protocol |-> 99],
      [time |-> 3600,  length |-> 100,   source |-> "10.9.9.9",    protocol |-> 17],
      [time |-> 86400, length |-> 50000, source |-> "10.9.9.9",    protocol |-> 99] }

Tables == UNION { [1..n -> RecordPool] : n \in 0..MaxRecords }

Rows(tbl) == 1..Len(tbl)

RECURSIVE SumOver(_, _)
\* the sum of f over the finite set S of arguments
SumOver(f, S) ==
    IF S = {} THEN 0
    ELSE LET x == CHOOSE y \in S : TRUE IN f[x] + SumOver(f, S \ {x})

\* section 4.2: the width of a bucket, in seconds
window_size(g) ==
    CASE g = "minute" -> 60
      [] g = "hour" -> 3600
      [] g = "day" -> 86400

\* a bug the aggregator could have: counting distinct timestamps per window
generate_traffic_analysis_nunique(tbl) ==
    [g \in Granularities |->
        LET win(i) == tbl[i].time \div window_size(g)
        IN [w \in {win(i) : i \in Rows(tbl)} |->
               Cardinality({tbl[i].time : i \in {j \in Rows(tbl) : win(j) = w}})]]

\* section 4.2: group by floor(timestamp / window_size(g)) and count; one bucket
\* per window that holds a record, no zero-filling
generate_traffic_analysis(tbl) ==
    [g \in Granularities |->
        LET win(i) == tbl[i].time \div window_size(g)
        IN [w \in {win(i) : i \in Rows(tbl)} |->
               Cardinality({i \in Rows(tbl) : win(i) = w})]]

\* section 4.3 in integers.  With n buckets of sum S, D(w) = n*count(w) - S
\* is n*(count - mean) and the sample variance is SS / (n*n*(n-1)) for
\* SS = sum of D(w)^2, so |count - mean| > kk*sigma is
\* D(w)^2 * (n-1) > kk^2 * SS.  One bucket (sigma undefined) flags nothing.
Deviates(ser, kk, w) ==
    LET n == Cardinality(DOMAIN ser)
        S == SumOver(ser, DOMAIN ser)
        sq == [v \in DOMAIN ser |-> (n * ser[v] - S) * (n * ser[v] - S)]
        SS == SumOver(sq, DOMAIN ser)
        D == n * ser[w] - S
    IN D * D * (n - 1) > kk * kk * SS

\* section 4.3: the windows of the series flagged with multiplier kk; mean and
\* sigma are those of the series itself
detect_traffic_anomalies(ser, kk) ==
    {w \in DOMAIN ser : Deviates(ser, kk, w)}

\* section 4.4: the frequency feature: the records sharing the row's source
Frequency(tbl, i) == Cardinality({j \in Rows(tbl) : tbl[j].source = tbl[i].source})

\* section 4.4: the table enriched with the features and the outlier flag.
\* `scored` is the set of rows the fitted outlier model scores as outliers;
\* the model itself is not modelled, any set of rows can come out of it.
detect_packet_anomalies(tbl, scored) ==
    [i \in Rows(tbl) |->
        [rec |-> tbl[i], frequency |-> Frequency(tbl, i), outlier |-> i \in scored,
         category |-> {}, protocol_category |-> "", source_category |-> ""]]

\* section 4.5: the thresholds of the rules
OversizedBound == 1500
HighFrequencyBound == 2
CommonProtocols == {1, 6, 17}

\* section 4.5: the rules, in the order they are tried
Rules == << "oversized packet", "unusual protocol", "high-frequency source" >>
Uncategorized == "anomalous - uncategorized"

Matches(rule, row) ==
    CASE rule = "oversized packet" -> row.rec.length > OversizedBound
      [] rule = "unusual protocol" -> row.rec.protocol \notin CommonProtocols
      [] rule = "high-frequency source" -> row.frequency > HighFrequencyBound

\* first matching rule wins; a flagged row no rule matches gets the default
FirstMatch(row) ==
    LET hits == {i \in 1..Len(Rules) : Matches(Rules[i], row)}
    IN IF hits = {} THEN Uncategorized
       ELSE Rules[CHOOSE i \in hits : \A j \in hits : i <= j]

Categorized(row) ==
    [row EXCEPT
        !.category = IF row.outlier THEN {FirstMatch(row)} ELSE {},
        !.protocol_category =
            IF row.rec.protocol \in CommonProtocols THEN "common" ELSE "uncommon",
        !.source_category =
            IF row.rec.source \in {"192.168.1.1", "192.168.1.2"}
            THEN "internal" ELSE "external"]

\* section 4.5: every row gets its tags; a flagged row gets one category, an
\* unflagged row none
categorize_anomalies(tbl) == [i \in Rows(tbl) |-> Categorized(tbl[i])]

\* label -> number of rows carrying it, for the labels that occur; labels[i]
\* is the set of labels of row i
ValueCounts(labels) ==
    [l \in UNION {labels[i] : i \in DOMAIN labels} |->
        Cardinality({i \in DOMAIN labels : l \in labels[i]})]

Report(tbl, grouped) ==
    LET IsOutlier(row) == row.outlier
        outliers == SelectSeq(tbl, IsOutlier)
        of == IF grouped = "outliers" THEN outliers ELSE tbl
    IN [summary |->
           [anomalies_detected |-> Len(outliers),
            \* in hundredths of a percent; 0 for a table without records
            anomaly_percentage |->
                IF Len(tbl) = 0 THEN 0 ELSE (10000 * Len(outliers)) \div Len(tbl),
            anomaly_categories |->
                ValueCounts([i \in Rows(of) |-> of[i].category]),
            protocol_categories |->
                ValueCounts([i \in Rows(of) |-> {of[i].protocol_category}]),
            source_categories |->
                ValueCounts([i \in Rows(of) |-> {of[i].source_category}])],
        outliers |-> outliers]

\* a bug the report could have: grouping all records instead of the outliers
generate_anomaly_report_all_rows(tbl) == Report(tbl, "all")

\* section 4.6: the summary and the outliers table
generate_anomaly_report(tbl) == Report(tbl, "outliers")

NoReport == [summary |-> << >>, outliers |-> << >>]

DataIdle ==
    /\ records = << >>
    /\ k = 0
    /\ stage = "off"
    /\ buckets = << >>
    /\ seriesFlags = << >>
    /\ table = << >>
    /\ detected = {}
    /\ report = NoReport

\* process_traffic_data has returned the table
DataInit ==
    /\ records \in Tables
    /\ k = 0
    /\ stage = "loaded"
    /\ buckets = << >>
    /\ seriesFlags = << >>
    /\ table = << >>
    /\ detected = {}
    /\ report = NoReport

\* app.py:51
RunAggregation ==
    /\ stage = "loaded"
    /\ buckets' = generate_traffic_analysis(records)
    /\ stage' = "aggregated"
    /\ UNCHANGED <<records, k, seriesFlags, table, detected, report>>

\* a bug lines 53-55 could have: every call passes traffic_per_minute, so the
\* hour and day series get the flags of the minute series
RunSeriesDetectionOfMinuteSeries ==
    /\ stage = "aggregated"
    /\ \E kk \in 0..MaxK :
          /\ k' = kk
          /\ seriesFlags' =
                [g \in Granularities |->
                    detect_traffic_anomalies(buckets["minute"], kk)]
    /\ stage' = "series_flagged"
    /\ UNCHANGED <<records, buckets, table, detected, report>>

\* app.py:53-55: the three calls, each passing its own series; the multiplier
\* is the notebook's, the same for the three
RunSeriesDetection ==
    /\ stage = "aggregated"
    /\ \E kk \in 0..MaxK :
          /\ k' = kk
          /\ seriesFlags' =
                [g \in Granularities |-> detect_traffic_anomalies(buckets[g], kk)]
    /\ stage' = "series_flagged"
    /\ UNCHANGED <<records, buckets, table, detected, report>>

\* app.py:67
RunPacketDetection ==
    /\ stage = "loaded"
    /\ \E scored \in SUBSET Rows(records) :
          /\ table' = detect_packet_anomalies(records, scored)
          /\ detected' = scored
    /\ stage' = "packets_flagged"
    /\ UNCHANGED <<records, k, buckets, seriesFlags, report>>

\* a bug line 68 could have: the categorized table is not bound to df
RunCategorizationUnbound ==
    /\ stage = "packets_flagged"
    /\ stage' = "categorized"
    /\ UNCHANGED <<records, k, buckets, seriesFlags, table, detected, report>>

\* app.py:68
RunCategorization ==
    /\ stage = "packets_flagged"
    /\ table' = categorize_anomalies(table)
    /\ stage' = "categorized"
    /\ UNCHANGED <<records, k, buckets, seriesFlags, detected, report>>

\* app.py:69
RunReport ==
    /\ stage = "categorized"
    /\ report' = generate_anomaly_report(table)
    /\ stage' = "reported"
    /\ UNCHANGED <<records, k, buckets, seriesFlags, table, detected>>

\* ------------------------------------------------------- specifications

Init == HandlerInit /\ DataIdle

Next ==
    \E s \in Sessions :
        \/ Upload(s) /\ UNCHANGED dataVars
        \/ ShowSample(s) /\ UNCHANGED dataVars
        \/ OpenTemp(s) /\ UNCHANGED dataVars
        \/ WriteTemp(s) /\ UNCHANGED dataVars
        \/ LoadNotebook(s) /\ UNCHANGED dataVars
        \/ Process(s) /\ UNCHANGED dataVars
        \/ Aggregate(s) /\ UNCHANGED dataVars
        \/ DetectMinute(s) /\ UNCHANGED dataVars
        \/ DetectHour(s) /\ UNCHANGED dataVars
        \/ DetectDay(s) /\ UNCHANGED dataVars
        \/ MakeDirs(s) /\ UNCHANGED dataVars
        \/ TrafficPlots(s) /\ UNCHANGED dataVars
        \/ AnomalyPlots(s) /\ UNCHANGED dataVars
        \/ DetectPackets(s) /\ UNCHANGED dataVars
        \/ Categorize(s) /\ UNCHANGED dataVars
        \/ AnomalyReport(s) /\ UNCHANGED dataVars
        \/ Success(s) /\ UNCHANGED dataVars
        \/ Tab1(s) /\ UNCHANGED dataVars
        \/ Tab2(s) /\ UNCHANGED dataVars
        \/ Tab3(s) /\ UNCHANGED dataVars
        \/ Tab4(s) /\ UNCHANGED dataVars
        \/ Except(s) /\ UNCHANGED dataVars
        \/ FinallyCheck(s) /\ UNCHANGED dataVars
        \/ FinallyRemove(s) /\ UNCHANGED dataVars

Spec == Init /\ [][Next]_vars

\* The analysis functions applied to every table of the pool: the series
\* branch (aggregate, detect) and the packet branch (detect, categorize,
\* report) both start from the loaded table.
DataNext ==
    \/ RunAggregation /\ UNCHANGED handlerVars
    \/ RunSeriesDetection /\ UNCHANGED handlerVars
    \/ RunPacketDetection /\ UNCHANGED handlerVars
    \/ RunCategorization /\ UNCHANGED handlerVars
    \/ RunReport /\ UNCHANGED handlerVars

InitData == HandlerInit /\ DataInit

SpecData == InitData /\ [][DataNext]_vars

\* ------------------------------------------------------------- the claims

Ended(s) == pc[s] = "done"
Results == {"complete", "tab1", "tab2", "tab3", "tab4"}
Tabs == {"tab1", "tab2", "tab3", "tab4"}
IsPrefix(p, q) == Len(p) <= Len(q) /\ \A i \in 1..Len(p) : p[i] = q[i]
FlaggedRows(tbl) == {i \in Rows(tbl) : tbl[i].outlier}
IsConstant(ser) == \A v, w \in DOMAIN ser : ser[v] = ser[w]

\* C1: cleanup runs on every exit path.  Once a run has ended, neither the
\* file it created nor the bytes it wrote are left at temp_upload.csv, and
\* when no run is in progress temp_upload.csv does not exist.
C1_TempFileRemoved ==
    /\ (\A s \in Sessions : pc[s] \in {"idle", "done"}) => ~tempFile.exists
    /\ \A s \in Sessions :
          Ended(s) /\ tempFile.exists =>
              /\ tempFile.ino # upload[s].id
              /\ tempFile.data.id # upload[s].id

\* one run has ended after rendering every tab, the other after a stage
\* raised with the temp file written, and the file is gone
C1_Witness ==
    /\ Ended("a") /\ failedAt["a"] = "none" /\ "tab4" \in shown["a"]
    /\ Ended("b") /\ failedAt["b"] = "report"
    /\ ~tempFile.exists

\* C2 as stated: in no run are a result (the success message or a tab) and
\* the error message both displayed.
C2_NoResultsBesideError ==
    \A s \in Sessions : ~("error" \in shown[s] /\ shown[s] \cap Results # {})

\* C2 as amended: a failure of a statement before st.success (writing the
\* temp file, loading the notebook, any processing stage) is caught, the error
\* message is shown and no result is; a result stands beside the error message
\* only when a tab's rendering raised.
C2_ProcessingFailureShowsNoResults ==
    \A s \in Sessions :
        /\ failedAt[s] \notin Tabs \cup {"none"} =>
              /\ shown[s] \cap Results = {}
              /\ pc[s] # "except" => "error" \in shown[s]
        /\ "error" \in shown[s] /\ shown[s] \cap Results # {} =>
              failedAt[s] \in Tabs

\* categorization raised: the run ended showing the error and nothing else
C2_Witness ==
    \E s \in Sessions :
        /\ Ended(s) /\ failedAt[s] = "categorize"
        /\ shown[s] = {"error", "guidance"}

\* C3: a run whose upload lacks a required column gets past no stage:
\* process_traffic_data raises, no later stage is reached, and the run ends
\* with the error message shown.
C3_MissingColumnStopsRun ==
    \A s \in Sessions :
        upload[s].cols = "noProtocol" =>
            /\ trace[s] = << >>
            /\ Ended(s) => "error" \in shown[s]

\* C8: no run writes into a directory that holds files of an earlier run, and
\* no artifact file is written over.
C8_FreshOutputPerRun == ~dirReused /\ ~overwritten

\* The order of the stages as C9 states it.
C9_Order ==
    << "process", "aggregate", "detect_minute", "detect_hour", "detect_day",
       "makedirs", "traffic_plots", "anomaly_plots",
       "detect_packets", "categorize", "report" >>

\* C9: the stages of a run return in the stated order, a stage is entered only
\* when all before it have returned, plots are drawn from series that carry
\* their flags and the report from a categorized table, and results are shown
\* only when the last stage has returned.
C9_StagesInOrder ==
    /\ \A s \in Sessions :
          /\ IsPrefix(trace[s], C9_Order)
          /\ (\E i \in 1..Len(C9_Order) : pc[s] = C9_Order[i]) =>
                pc[s] = C9_Order[Len(trace[s]) + 1]
          /\ shown[s] \cap Results # {} => trace[s] = C9_Order
    /\ \A a \in ArtifactNames : artifacts[a].by # 0 => artifacts[a].complete

\* a run went through every stage and rendered every tab
C9_Witness ==
    \E s \in Sessions :
        /\ trace[s] = C9_Order
        /\ Results \subseteq shown[s]
        /\ \A a \in ArtifactNames : artifacts[a].by = upload[s].id

\* C10: runs are isolated: a run parses the bytes it uploaded, its
\* process_traffic_data does not fail on a complete upload because another
\* run removed or truncated the file, and the charts it shows are drawn from
\* its own upload.
C10_RunsIsolated ==
    \A s \in Sessions :
        /\ df[s] # 0 => df[s] = upload[s].id
        /\ failedAt[s] = "process" => upload[s].cols # "all"
        /\ shownPlots[s] # 0 => shownPlots[s] = upload[s].id

\* C4: at each granularity the bucket counts sum to the number of records,
\* the buckets are exactly the windows holding a record, and each count is
\* the number of records of that window (so at least 1).
C4_BucketCountsSumToTotal ==
    stage \in {"aggregated", "series_flagged"} =>
        \A g \in Granularities :
            LET b == buckets[g]
                win(i) == records[i].time \div window_size(g)
            IN /\ SumOver(b, DOMAIN b) = Len(records)
               /\ DOMAIN b = {win(i) : i \in Rows(records)}
               /\ \A w \in DOMAIN b : b[w] >= 1

\* four records, two of them in one minute, spread over two days
C4_Witness ==
    /\ stage = "aggregated"
    /\ Len(records) = MaxRecords
    /\ \E w \in DOMAIN buckets["minute"] : buckets["minute"][w] >= 2
    /\ Cardinality(DOMAIN buckets["minute"]) >= 2
    /\ Cardinality(DOMAIN buckets["day"]) = 2

\* C5: categorization keeps the rows and the flags of the detector, and gives
\* every flagged row exactly one category.
C5_CategorizerKeepsFlags ==
    stage \in {"categorized", "reported"} =>
        /\ Len(table) = Len(records)
        /\ \A i \in Rows(table) : table[i].rec = records[i]
        /\ FlaggedRows(table) = detected
        /\ \A i \in FlaggedRows(table) : Cardinality(table[i].category) = 1

\* flagged rows of which one matches two rules and one matches none
C5_Witness ==
    /\ stage = "categorized"
    /\ \E i, j \in detected :
          /\ table[i].category = {Uncategorized}
          /\ table[j].category = {"oversized packet"}
          /\ Matches("unusual protocol", table[j])
    /\ detected # Rows(table)

\* C6: a series whose counts are all equal gets no flag, whatever k is and
\* whatever the series of the other two granularities are; flags are windows
\* of the series itself.
C6_ConstantSeriesNotFlagged ==
    stage = "series_flagged" =>
        \A g \in Granularities :
            /\ seriesFlags[g] \subseteq DOMAIN buckets[g]
            /\ IsConstant(buckets[g]) => seriesFlags[g] = {}

\* the day series is constant over two buckets and unflagged while the minute
\* series of the same records has flagged buckets
C6_Witness ==
    /\ stage = "series_flagged"
    /\ Cardinality(DOMAIN buckets["day"]) = 2
    /\ IsConstant(buckets["day"])
    /\ seriesFlags["day"] = {}
    /\ seriesFlags["minute"] # {}

\* C7: the outliers table is the flagged rows, the counts of each grouping sum
\* to the flagged count, no flagged row means three empty groupings, and the
\* report is produced for every categorized table.
C7_ReportGroupsFlagged ==
    /\ stage = "categorized" => ENABLED RunReport
    /\ stage = "reported" =>
          LET IsOutlier(row) == row.outlier
              flagged == Cardinality(FlaggedRows(table))
              groupings == { report.summary.anomaly_categories,
                             report.summary.protocol_categories,
                             report.summary.source_categories }
          IN /\ report.outliers = SelectSeq(table, IsOutlier)
             /\ report.summary.anomalies_detected = flagged
             /\ \A grp \in groupings : SumOver(grp, DOMAIN grp) = flagged
             /\ flagged = 0 => \A grp \in groupings : DOMAIN grp = {}

\* a report over a table with flagged and unflagged rows and two categories
C7_Witness ==
    /\ stage = "reported"
    /\ Len(report.outliers) >= 2
    /\ Len(report.outliers) < Len(table)
    /\ Cardinality(DOMAIN report.summary.anomaly_categories) >= 2

\* a report over a table without flagged rows
C7_WitnessNoOutliers ==
    /\ stage = "reported"
    /\ Len(table) >= 1
    /\ Len(report.outliers) = 0

====
